---- MODULE Spec2Model ----
(***************************************************************************)
(* Model of the Solana chain poller (src/chain_pollers/solana.rs), its     *)
(* in-memory persistence (src/chain_pollers/persistence/memory.rs) and the *)
(* three collaborators it talks to: chain client, log decoder and handler  *)
(* sink.  A tick (process_next_slot) is modelled as TickBegin followed by  *)
(* one SlotStep per iteration of its `for slot_num in slots_to_fetch`.     *)
(* Spec runs the poller on its store; StoreSpec runs concurrent callers of *)
(* the in-memory persistence, one step per map operation of a method.      *)
(***************************************************************************)
EXTENDS Integers, Sequences, FiniteSets, TLC

(* ------------------------------ bounds -------------------------------- *)

\* highest slot number the chain produces
MaxSlot == 4
\* config.max_reorg_depth of the explored poller (non-zero, so `new` keeps it)
max_reorg_depth == 2
\* config.slot_history_size of the explored poller (non-zero)
slot_history_size == 2
\* a block holds at most MaxLogs log lines of the interesting programs
MaxLogs == 2

(* ------------------------- values and options ------------------------- *)

\* Option<T> as a set with at most one element
None == {}
Some(v) == {v}
UnwrapOr(o, d) == IF o = {} THEN d ELSE CHOOSE v \in o : TRUE

\* config.chain_id (the Default value)
chain_id == 101

Max(a, b) == IF a >= b THEN a ELSE b

\* u64::saturating_sub
SaturatingSub(a, b) == IF a >= b THEN a - b ELSE 0

(* ------------------------------ the chain ----------------------------- *)
\* The chain view is the sequence of blockhashes of slots 1..Len(chain).  A
\* blockhash identifies the block, so it fixes the block's parent, block
\* time and logs.  Blocks of fork "hA" extend the slot right before them;
\* blocks of fork "hB" skip one slot (and omit parent when there is no such
\* slot) and omit block_time.
Forks == {"hA", "hB"}

ParentOf(n, h) ==
    IF h = "hA" THEN Some(n - 1)
    ELSE IF n > 2 THEN Some(n - 2) ELSE None

BlockTimeOf(n, h) == IF h = "hA" THEN Some(n) ELSE None

\* Client::get_latest_slot
GetLatestSlot(ch) == Len(ch)

\* the client can serve a block only for a slot the chain has
ClientHasSlot(ch, n) == n \in 1..Len(ch)

\* Client::get_slot_by_number: the SolanaSlot of slot n (slot.slot = n)
GetSlotByNumber(ch, n) ==
    [slot |-> n,
     parent |-> ParentOf(n, ch[n]),
     blockhash |-> ch[n],
     block_time |-> BlockTimeOf(n, ch[n])]

\* number of log lines program `program` emitted in block (n, h): "pa" logs
\* one line in odd slots, "pb" logs MaxLogs - 1 lines in blocks of fork "hA"
ProgramLogCount(program, n, h) ==
    IF program = "pa" THEN n % 2
    ELSE IF h = "hA" THEN MaxLogs - 1 ELSE 0

\* Client::get_program_logs(program, n, n)
GetProgramLogs(ch, program, n) ==
    [i \in 1..ProgramLogCount(program, n, ch[n]) |->
        [program_id |-> program, log_index |-> i - 1, slot |-> n]]

\* LogParser::decode_log: address = program id, log_index copied through
DecodeLog(program_id, log) ==
    [address |-> program_id, log_index |-> log.log_index]

(* ---------------------------- configuration --------------------------- *)

\* str::to_lowercase on the program identifiers in use
ToLowercase(s) ==
    IF s = "PA" THEN "pa" ELSE IF s = "Pb" THEN "pb" ELSE s

RECURSIVE EffectiveFrom(_, _)
EffectiveFrom(ps, j) ==
    IF j > Len(ps) THEN <<>>
    ELSE IF ps[j] = "" THEN EffectiveFrom(ps, j + 1)
    ELSE <<ToLowercase(ps[j])>> \o EffectiveFrom(ps, j + 1)

\* all_programs with the empty entries kept
AllProgramsWithEmpty(ps) == [j \in 1..Len(ps) |-> ToLowercase(ps[j])]

\* all_programs: empties dropped, lower-cased, order kept
AllPrograms(ps) == EffectiveFrom(ps, 1)

(* ----------------------------- persistence ---------------------------- *)
\* A store is [slots, last]: slots maps the slot numbers that have a record
\* to the record, last is the per-chain last-processed pointer (an option).

EmptyStore == [slots |-> <<>>, last |-> None]

HasRecord(st, n) == n \in DOMAIN st.slots

\* ChainPollerPersistence::get_last_processed_slot: pointer, then record
GetLastProcessedSlot(st) ==
    IF st.last = None THEN None
    ELSE LET slot_num == UnwrapOr(st.last, 0) IN
         IF HasRecord(st, slot_num) THEN Some(st.slots[slot_num]) ELSE None

\* ChainPollerPersistence::save_slot: insert the record, move the pointer
SaveSlot(st, r) ==
    [slots |-> [k \in (DOMAIN st.slots) \cup {r.slot} |->
                    IF k = r.slot THEN r ELSE st.slots[k]],
     last |-> Some(r.slot)]

\* ChainPollerPersistence::get_slot
GetSlot(st, n) == IF HasRecord(st, n) THEN Some(st.slots[n]) ELSE None

\* delete_slot that reports success and removes nothing
DeleteSlotKeeps(st, n) ==
    IF HasRecord(st, n) THEN [err |-> "none", store |-> st]
    ELSE [err |-> "NotFound", store |-> st]

\* ChainPollerPersistence::delete_slot: NotFound when absent
DeleteSlot(st, n) ==
    IF HasRecord(st, n)
    THEN [err |-> "none",
          store |-> [st EXCEPT !.slots =
                        [k \in (DOMAIN st.slots) \ {n} |-> st.slots[k]]]]
    ELSE [err |-> "NotFound", store |-> st]

\* the SlotRecord built from a SolanaSlot
ToSlotRecord(s) ==
    [slot |-> s.slot,
     blockhash |-> s.blockhash,
     parent |-> UnwrapOr(s.parent, 0),
     block_time |-> UnwrapOr(s.block_time, 0),
     chain_id |-> chain_id]

(* ------------------------------- events ------------------------------- *)
\* The calls the poller makes to the handler sink and to the client, in
\* order, within one tick.

Ev(op, n, parent, h, program, i) ==
    [op |-> op, slot |-> n, parent |-> parent, blockhash |-> h,
     program |-> program, idx |-> i]

HandleSlotEv(s) == Ev("handle_slot", s.slot, s.parent, s.blockhash, "", 0)
\* the LogWithSlot envelope: decoded log and the slot it belongs to
HandleLogEv(s, decoded) ==
    Ev("handle_log", s.slot, s.parent, s.blockhash, decoded.address,
       decoded.log_index)
HandleReorgEv(n) == Ev("handle_reorg_slot", n, None, "", "", 0)
FetchSlotEv(n) == Ev("get_slot_by_number", n, None, "", "", 0)
FetchLogsEv(program, n) == Ev("get_program_logs", n, None, "", program, 0)

\* a fault is a <<call site, argument>> whose call fails in this step
Fails(faults, site, arg) == <<site, arg>> \in faults

(* --------------------------- per-slot pipeline ------------------------ *)

\* fetch_logs_for_interesting_programs_for_slot, from program j on
RECURSIVE FetchLogsFrom(_, _, _, _, _, _, _)
FetchLogsFrom(ch, all_programs, j, slot_number, all_logs, ev, faults) ==
    IF j > Len(all_programs)
    THEN [err |-> FALSE, logs |-> all_logs, ev |-> ev, at |-> 0]
    ELSE LET program == all_programs[j]
             ev1 == Append(ev, FetchLogsEv(program, slot_number))
         IN  IF Fails(faults, "get_program_logs", j)
             THEN [err |-> TRUE, logs |-> <<>>, ev |-> ev1, at |-> j]
             ELSE FetchLogsFrom(ch, all_programs, j + 1, slot_number,
                      all_logs \o GetProgramLogs(ch, program, slot_number),
                      ev1, faults)

FetchLogsForInterestingPrograms(ch, programs, slot_number, ev, faults) ==
    FetchLogsFrom(ch, AllPrograms(programs), 1, slot_number, <<>>, ev, faults)

\* the `for log in logs` loop of process_slot_logs, from log i on
RECURSIVE DeliverLogsFrom(_, _, _, _, _)
DeliverLogsFrom(slot, logs, i, ev, faults) ==
    IF i > Len(logs) THEN [err |-> "none", ev |-> ev, at |-> 0]
    ELSE IF Fails(faults, "decode_log", i)
    THEN [err |-> "decode_log", ev |-> ev, at |-> i]
    ELSE LET decoded_log == DecodeLog(logs[i].program_id, logs[i])
             ev1 == Append(ev, HandleLogEv(slot, decoded_log))
         IN  IF Fails(faults, "handle_log", i)
             THEN [err |-> "handle_log", ev |-> ev1, at |-> i]
             ELSE DeliverLogsFrom(slot, logs, i + 1, ev1, faults)

\* process_slot_logs that saves the record before it looks at the result of
\* the log loop
SaveProcessedFirst(slot, st, faults, d) ==
    IF Fails(faults, "save_slot", slot.slot)
    THEN [err |-> "save_slot", record |-> None, store |-> st, ev |-> d.ev,
          at |-> 0]
    ELSE IF d.err # "none"
    THEN [err |-> d.err, record |-> None,
          store |-> SaveSlot(st, ToSlotRecord(slot)), ev |-> d.ev, at |-> d.at]
    ELSE [err |-> "none", record |-> Some(ToSlotRecord(slot)),
          store |-> SaveSlot(st, ToSlotRecord(slot)), ev |-> d.ev, at |-> 0]

\* process_slot_logs after the log loop, d its result: the record is built
\* and saved only when every log was delivered
SaveProcessed(slot, st, faults, d) ==
    IF d.err # "none"
    THEN [err |-> d.err, record |-> None, store |-> st, ev |-> d.ev,
          at |-> d.at]
    ELSE IF Fails(faults, "save_slot", slot.slot)
    THEN [err |-> "save_slot", record |-> None, store |-> st, ev |-> d.ev,
          at |-> 0]
    ELSE [err |-> "none", record |-> Some(ToSlotRecord(slot)),
          store |-> SaveSlot(st, ToSlotRecord(slot)), ev |-> d.ev, at |-> 0]

\* process_slot_logs after the fetch of the logs, f its result
DeliverFetched(slot, st, faults, f) ==
    IF f.err
    THEN [err |-> "get_program_logs", record |-> None, store |-> st,
          ev |-> f.ev, at |-> f.at]
    ELSE SaveProcessed(slot, st, faults,
                       DeliverLogsFrom(slot, f.logs, 1, f.ev, faults))

\* process_slot_logs: Err (err # "none") or Ok(Some(record))
ProcessSlotLogs(ch, programs, slot, st, ev, faults) ==
    DeliverFetched(slot, st, faults,
        FetchLogsForInterestingPrograms(ch, programs, slot.slot, ev, faults))

\* pruning that requests no deletion
PruneOldSlotSkips(record, st, faults) == [store |-> st, logged |-> {}]

\* pruning after a forward step (the `if let Some(record)` block); an error
\* of delete_slot is logged with the error it carries
PruneOldSlot(record, st, faults) ==
    IF slot_history_size > 0 /\ record.slot > slot_history_size
    THEN LET old_slot_num == record.slot - slot_history_size
             d == DeleteSlot(st, old_slot_num)
         IN  IF Fails(faults, "delete_prune", old_slot_num)
             THEN [store |-> st,
                   logged |-> {"Failed to prune old slot, error=Other"}]
             ELSE [store |-> d.store,
                   logged |-> IF d.err = "none" THEN {}
                        ELSE {"Failed to prune old slot, error=NotFound"}]
    ELSE [store |-> st, logged |-> {}]

(* ------------------------- reorg reconciliation ----------------------- *)

\* a record built for a missing slot without the canonical blockhash
ParentSlotRecordNoHash(ch, p, st) ==
    IF HasRecord(st, p) THEN st.slots[p]
    ELSE [ToSlotRecord(GetSlotByNumber(ch, p)) EXCEPT !.blockhash = ""]

\* the record find_orphaned_slots compares with the canonical slot p: the
\* stored one, or one built from the canonical slot when none is stored
ParentSlotRecord(ch, p, st) ==
    IF HasRecord(st, p) THEN st.slots[p]
    ELSE ToSlotRecord(GetSlotByNumber(ch, p))

\* the store after the Ok(None) arm saved the record it built; a failure of
\* that save is only logged
SaveMissing(ch, p, st, faults) ==
    IF ~HasRecord(st, p) /\ ~Fails(faults, "save_missing", p)
    THEN SaveSlot(st, ParentSlotRecord(ch, p, st)) ELSE st

\* an iteration that returns the matching record without saving it again
CheckAncestorNoSave(ch, p, st, faults) ==
    IF Fails(faults, "get_slot_by_number", p) \/ ~ClientHasSlot(ch, p)
       \/ Fails(faults, "get_slot", p)
    THEN [kind |-> "err", record |-> None, store |-> st]
    ELSE IF GetSlotByNumber(ch, p).blockhash
            # ParentSlotRecord(ch, p, st).blockhash
    THEN [kind |-> "orphan", record |-> Some(ParentSlotRecord(ch, p, st)),
          store |-> SaveMissing(ch, p, st, faults)]
    ELSE IF Fails(faults, "save_parent", p)
    THEN [kind |-> "err", record |-> None,
          store |-> SaveMissing(ch, p, st, faults)]
    ELSE [kind |-> "ancestor", record |-> Some(ParentSlotRecord(ch, p, st)),
          store |-> SaveMissing(ch, p, st, faults)]

\* one iteration of the loop of find_orphaned_slots, for parent_slot_num = p:
\* "err" (a `?` or the Err arm returned), "orphan" (pushed, continue) or
\* "ancestor" (hashes match, the loop returns), with the record and the store
CheckAncestor(ch, p, st, faults) ==
    IF Fails(faults, "get_slot_by_number", p) \/ ~ClientHasSlot(ch, p)
       \/ Fails(faults, "get_slot", p)
    THEN [kind |-> "err", record |-> None, store |-> st]
    ELSE IF GetSlotByNumber(ch, p).blockhash
            # ParentSlotRecord(ch, p, st).blockhash
    THEN [kind |-> "orphan", record |-> Some(ParentSlotRecord(ch, p, st)),
          store |-> SaveMissing(ch, p, st, faults)]
    ELSE IF Fails(faults, "save_parent", p)
    THEN [kind |-> "err", record |-> None,
          store |-> SaveMissing(ch, p, st, faults)]
    ELSE [kind |-> "ancestor", record |-> Some(ParentSlotRecord(ch, p, st)),
          store |-> SaveSlot(SaveMissing(ch, p, st, faults),
                             ParentSlotRecord(ch, p, st))]

\* find_orphaned_slots: the descending loop, at parent_slot_num = p, with lo
\* the lower end of the range; FindOrphanedNext continues after iteration p
\* with its result c
RECURSIVE FindOrphanedFrom(_, _, _, _, _, _, _)
RECURSIVE FindOrphanedNext(_, _, _, _, _, _, _)
FindOrphanedNext(ch, p, lo, orphaned_slots, ev, faults, c) ==
    IF c.kind = "orphan"
    THEN FindOrphanedFrom(ch, p - 1, lo,
             Append(orphaned_slots, UnwrapOr(c.record, 0)), c.store,
             Append(ev, FetchSlotEv(p)), faults)
    ELSE [err |-> (c.kind = "err"),
          orphans |-> IF c.kind = "err" THEN <<>> ELSE orphaned_slots,
          store |-> c.store, ev |-> Append(ev, FetchSlotEv(p)),
          ancestor |-> IF c.kind = "ancestor" THEN p ELSE 0]

FindOrphanedFrom(ch, p, lo, orphaned_slots, st, ev, faults) ==
    IF p < lo \/ p = 0
    THEN [err |-> FALSE, orphans |-> orphaned_slots, store |-> st, ev |-> ev,
          ancestor |-> 0]
    ELSE FindOrphanedNext(ch, p, lo, orphaned_slots, ev, faults,
                          CheckAncestor(ch, p, st, faults))

\* a search that goes down to slot 1 whatever max_depth is
FindOrphanedSlotsToGenesis(ch, start_slot, max_depth, st, ev, faults) ==
    FindOrphanedFrom(ch, start_slot.slot - 1, 0, <<>>, st, ev, faults)

\* find_orphaned_slots(start_slot, max_depth)
FindOrphanedSlots(ch, start_slot, max_depth, st, ev, faults) ==
    FindOrphanedFrom(ch, start_slot.slot - 1,
                     SaturatingSub(start_slot.slot, max_depth),
                     <<>>, st, ev, faults)

\* the `for orphaned_slot in orphaned_slots` loop of reconcile_reorg
RECURSIVE DeleteOrphansFrom(_, _, _, _, _)
DeleteOrphansFrom(orphaned_slots, k, st, ev, faults) ==
    IF k > Len(orphaned_slots) THEN [err |-> FALSE, store |-> st, ev |-> ev]
    ELSE LET orphaned_slot == orphaned_slots[k]
             ev1 == Append(ev, HandleReorgEv(orphaned_slot.slot))
         IN  IF Fails(faults, "delete_orphan", orphaned_slot.slot)
             THEN [err |-> TRUE, store |-> st, ev |-> ev1]
             ELSE DeleteOrphansFrom(orphaned_slots, k + 1,
                      DeleteSlot(st, orphaned_slot.slot).store, ev1, faults)

\* reconcile_reorg after the deletion loop, d its result
ReconcileDeleted(f, d) ==
    [err |-> IF d.err THEN "delete_slot" ELSE "ok", store |-> d.store,
     ev |-> d.ev, orphans |-> f.orphans, ancestor |-> f.ancestor]

Reverse(q) == [k \in 1..Len(q) |-> q[Len(q) + 1 - k]]

\* reconcile_reorg that walks the orphan list from its far end
ReconcileFoundAscending(f, faults) ==
    IF f.err
    THEN [err |-> "find_orphaned_slots", store |-> f.store, ev |-> f.ev,
          orphans |-> <<>>, ancestor |-> 0]
    ELSE IF f.orphans = <<>>
    THEN [err |-> "no_orphans", store |-> f.store, ev |-> f.ev,
          orphans |-> <<>>, ancestor |-> f.ancestor]
    ELSE ReconcileDeleted(f,
             DeleteOrphansFrom(Reverse(f.orphans), 1, f.store, f.ev, faults))

\* reconcile_reorg after find_orphaned_slots, f its result
ReconcileFound(f, faults) ==
    IF f.err
    THEN [err |-> "find_orphaned_slots", store |-> f.store, ev |-> f.ev,
          orphans |-> <<>>, ancestor |-> 0]
    ELSE IF f.orphans = <<>>
    THEN [err |-> "no_orphans", store |-> f.store, ev |-> f.ev,
          orphans |-> <<>>, ancestor |-> f.ancestor]
    ELSE ReconcileDeleted(f,
             DeleteOrphansFrom(f.orphans, 1, f.store, f.ev, faults))

\* reconcile_reorg(start_slot)
ReconcileReorg(ch, start_slot, st, ev, faults) ==
    ReconcileFound(
        FindOrphanedSlots(ch, start_slot, max_reorg_depth, st, ev, faults),
        faults)

(* -------------------------------- state ------------------------------- *)

(* --------------------------- the constructor -------------------------- *)

\* the defaults new puts in place of 0
DefaultMaxReorgDepth == 10
DefaultSlotHistorySize == 100

\* highest max_reorg_depth and slot_history_size of a config handed to new
MaxConfig == 6

\* the configs handed to new, as far as new looks at them
Configs ==
    [max_reorg_depth : 0..MaxConfig,
     slot_history_size : 0..MaxConfig,
     reorg_check_enabled : BOOLEAN]

\* the config of the poller Spec explores
ExploredConfig ==
    [max_reorg_depth |-> max_reorg_depth,
     slot_history_size |-> slot_history_size,
     reorg_check_enabled |-> TRUE]

\* a constructor that keeps the config as handed in
NewKeepsConfig(c) == c

\* SolanaChainPoller::new: the config the poller keeps
New(c) ==
    LET depth == IF c.max_reorg_depth = 0
                 THEN DefaultMaxReorgDepth ELSE c.max_reorg_depth
        history == IF c.slot_history_size = 0
                   THEN DefaultSlotHistorySize ELSE c.slot_history_size
    IN  [max_reorg_depth |-> depth,
         slot_history_size |-> history,
         reorg_check_enabled |->
             IF ~c.reorg_check_enabled /\ depth > 0
             THEN TRUE ELSE c.reorg_check_enabled]

(* ------------------------- the client's retry ------------------------- *)

\* let backoffs = vec![1, 3, 5, 10, 20, 30, 60]
backoffs == <<1, 3, 5, 10, 20, 30, 60>>

\* SolanaClient::call before its first attempt
NoRpc == [attempt |-> 0, slept |-> <<>>, result |-> "none"]

(* ------------------- in-memory persistence: values -------------------- *)
\* InMemoryChainPollerPersistence keeps two DashMaps keyed by strings and a
\* bool behind an RwLock.  A map is a function from the keys it holds.

\* highest slot number a caller of the shared store saves
MaxStoreSlot == 2

\* the chains of the pollers that share one store
ChainIds == {chain_id, chain_id + 1}

\* the task that closes the store
Shutdown == 0

\* a task per poller, named by its chain, and the closing task
Tasks == ChainIds \cup {Shutdown}

\* format!("{}", chain_id)
make_slot_key(c) == ToString(c)

\* a record key that leaves the chain out
make_slot_record_key_no_chain(c, slot_number) ==
    "slot:" \o ToString(slot_number)

\* format!("slot:{}:{}", chain_id, slot_number)
make_slot_record_key(c, slot_number) ==
    "slot:" \o ToString(c) \o ":" \o ToString(slot_number)

\* an insert that keeps the value a key already has
insert_if_absent(map, k, v) ==
    [x \in (DOMAIN map) \cup {k} |-> IF x \in DOMAIN map THEN map[x] ELSE v]

\* DashMap::insert: the value replaces the one the key had
insert(map, k, v) ==
    [x \in (DOMAIN map) \cup {k} |-> IF x = k THEN v ELSE map[x]]

\* DashMap::get, the value cloned out
get(map, k) == IF k \in DOMAIN map THEN Some(map[k]) ELSE None

\* a remove that empties the map
remove_all(map, k) == [x \in {} |-> map[x]]

\* DashMap::remove
remove(map, k) == [x \in (DOMAIN map) \ {k} |-> map[x]]

\* Result<Option<T>, PersistenceError>; Ok(()) is Ok(None)
Ok(v) == [ok |-> TRUE, err |-> "", val |-> v]
Err(e) == [ok |-> FALSE, err |-> e, val |-> None]

\* the SlotRecord a poller of chain c saves for slot n with blockhash h
StoreRecord(c, n, h) ==
    [slot |-> n, blockhash |-> h, parent |-> n - 1, block_time |-> n,
     chain_id |-> c]

\* a task outside any call
NoCall ==
    [op |-> "none", at |-> "idle", chain_id |-> 0, slot_number |-> 0,
     slot |-> None, slot_num |-> 0, result |-> Err("none")]

\* a task's call op(c, n) or op(record), after its read of `closed`
Calling(op, c, n, rec, at) ==
    [op |-> op, at |-> at, chain_id |-> c, slot_number |-> n,
     slot |-> rec, slot_num |-> 0, result |-> Err("none")]

\* the call returns res
Returned(call, res) == [call EXCEPT !.at = "done", !.result = res]

\* ghost state: closedOk, a close has returned Ok; closing, a close has
\* been called; settled[c], the record of the last save_slot of chain c that
\* returned Ok on the open store, while no save_slot, delete_slot or close
\* has been called since; expect[t], the record the get call task t is in
\* was called after, while no close has been called since; alone[c], the
\* store a poller of chain c running alone would have built; want[c], the
\* result its last call would have returned (the last two kept up to the
\* first call of close)
NoGhost ==
    [closedOk |-> FALSE,
     closing |-> FALSE,
     settled |-> [c \in ChainIds |-> None],
     expect |-> [t \in Tasks |-> None],
     alone |-> [c \in ChainIds |-> EmptyStore],
     want |-> [c \in ChainIds |-> Err("none")]]

VARIABLES
    chain,                 \* the chain view the client reads
    interesting_programs,  \* config.interesting_programs
    store,                 \* the persistence
    pc,                    \* "start", "idle" (between ticks), "loop", "failed"
    latest_slot_record,    \* process_next_slot: the record read at tick start
    latest_slot_num,       \* process_next_slot: the latest slot read
    slots_to_fetch,        \* process_next_slot: the slots still to process
    events,                \* handler and client calls of the current tick
    prevEvents,            \* the handler calls the tick before made for the
                           \* slot whose log pipeline it aborted
    cur,                   \* what the current (or last) tick did so far
    prev,                  \* where the tick before stopped, when it was unfinished
                           \* and the chain has not changed since
    handled                \* the slot of the last handle_slot delivery,
                           \* whether handle_reorg_slot was called since, and
                           \* whether a pruning deletion ever failed with an
                           \* error other than NotFound, and the slot start
                           \* began at, for as long as no block of the chain
                           \* was replaced and no call of a tick's loop failed
                           \* (0 afterwards)

\* InMemoryChainPollerPersistence, shared by concurrent tasks
VARIABLES
    last_processed_slots,  \* DashMap<String, u64>
    slots,                 \* DashMap<String, SlotRecord>
    closed,                \* the bool inside the RwLock
    write_guard,           \* the task holding closed.write(), if any
    inflight,              \* per task: the call it is in, or has returned from
    ghost                  \* what the calls so far let a caller expect

pollerVars == <<chain, interesting_programs, store, pc, latest_slot_record,
                latest_slot_num, slots_to_fetch, events, prevEvents, cur,
                prev, handled>>

memVars == <<last_processed_slots, slots, closed, write_guard, inflight,
             ghost>>

\* SolanaChainPoller::new and SolanaClient::call, each run on its own
VARIABLES
    given,                 \* the config handed to new
    config,                \* the config of the poller new built, if built
    responses,             \* what call_internal returns, attempt by attempt
    rpc                    \* SolanaClient::call: attempts made, sleeps, result

fnVars == <<given, config, responses, rpc>>

vars == <<pollerVars, memVars, fnVars>>

NoTick ==
    [status |-> "none", faulted |-> FALSE, stepFaulted |-> FALSE,
     processed |-> <<>>, check |-> <<>>,
     reorgAt |-> 0, reconcile |-> "none", orphans |-> <<>>, ancestor |-> 0,
     stored |-> {}, slotErr |-> 0,
     abortAt |-> 0, abortWhy |-> "none", abortIdx |-> 0]

NoHandled ==
    [last |-> 0, reorgSince |-> FALSE, pruneFailed |-> FALSE, boot |-> 0]

\* config.interesting_programs of the explored pollers: two programs and an
\* empty entry, no entry, only an empty entry
ProgramLists == {<<"PA", "", "Pb">>, <<>>, <<"">>}

\* the poller before start, programs its config.interesting_programs
PollerInitWith(programs) ==
    /\ chain = <<"hA">>
    /\ interesting_programs = programs
    /\ store = EmptyStore
    /\ pc = "start"
    /\ latest_slot_record = None
    /\ latest_slot_num = 0
    /\ slots_to_fetch = <<>>
    /\ events = <<>>
    /\ prevEvents = <<>>
    /\ cur = NoTick
    /\ prev = NoTick
    /\ handled = NoHandled

\* InMemoryChainPollerPersistence::new
MemInit ==
    /\ last_processed_slots = <<>>
    /\ slots = <<>>
    /\ closed = FALSE
    /\ write_guard = None
    /\ inflight = [t \in Tasks |-> NoCall]
    /\ ghost = NoGhost

\* the explored poller is built from its config; no RPC call is under way
FnInit ==
    /\ given = ExploredConfig
    /\ config = Some(New(ExploredConfig))
    /\ responses = <<>>
    /\ rpc = NoRpc

\* the poller with two programs, for the runs that leave it alone
PollerInit == PollerInitWith(<<"PA", "", "Pb">>)

Init ==
    /\ \E programs \in ProgramLists : PollerInitWith(programs)
    /\ MemInit
    /\ FnInit

(* ------------------------------- faults ------------------------------- *)

\* the fault sets of one step of the poller: every call succeeds, or one
\* call of the step fails
FaultSets(sites) == {{}} \cup {{x} : x \in sites}

BootFaultSites(ch) ==
    {<<"get_last_processed_slot", 0>>, <<"get_latest_slot", 0>>,
     <<"get_slot_by_number", Len(ch)>>, <<"save_slot", Len(ch)>>}

TickFaultSites ==
    {<<"get_last_processed_slot", 0>>, <<"get_latest_slot", 0>>}

NumLogs(ch, programs, n) ==
    Len(FetchLogsForInterestingPrograms(ch, programs, n, <<>>, {}).logs)

StepFaultSites(ch, programs, n) ==
    LET ancestors == Max(1, SaturatingSub(n, max_reorg_depth))..(n - 1)
    IN  {<<"get_slot_by_number", m>> : m \in ancestors \cup {n}}
        \cup {<<site, p>> :
                site \in {"get_slot", "save_missing", "save_parent",
                          "delete_orphan"},
                p \in ancestors}
        \cup {<<"handle_slot", n>>, <<"save_slot", n>>,
              <<"delete_prune", n - slot_history_size>>}
        \cup {<<"get_program_logs", j>> : j \in 1..Len(AllPrograms(programs))}
        \cup {<<site, i>> : site \in {"decode_log", "handle_log"},
                            i \in 1..NumLogs(ch, programs, n)}

(* ------------------------------ the chain ----------------------------- *)

\* what the last ticks did is recorded for as long as the chain view stays
\* the same
ForgetTicks ==
    /\ cur' = NoTick
    /\ prev' = NoTick
    /\ events' = <<>>
    /\ prevEvents' = <<>>

\* the chain produces the next slot
ChainAdvance(h) ==
    /\ pc \in {"start", "idle"}
    /\ Len(chain) < MaxSlot
    /\ chain' = Append(chain, h)
    /\ ForgetTicks
    /\ UNCHANGED <<memVars, fnVars>>
    /\ UNCHANGED <<interesting_programs, store, pc, latest_slot_record,
                   latest_slot_num, slots_to_fetch, handled>>

\* the chain replaces the block of slot n by a block of another fork
ChainReorg(n, h) ==
    /\ pc \in {"start", "idle"}
    /\ n \in 1..Len(chain)
    /\ chain[n] # h
    /\ chain' = [chain EXCEPT ![n] = h]
    /\ ForgetTicks
    /\ handled' = [handled EXCEPT !.boot = 0]
    /\ UNCHANGED <<memVars, fnVars>>
    /\ UNCHANGED <<interesting_programs, store, pc, latest_slot_record,
                   latest_slot_num, slots_to_fetch>>

\* the client's latest slot regresses by one
ChainRegress ==
    /\ pc \in {"start", "idle"}
    /\ Len(chain) > 1
    /\ chain' = SubSeq(chain, 1, Len(chain) - 1)
    /\ ForgetTicks
    /\ handled' = [handled EXCEPT !.boot = 0]
    /\ UNCHANGED <<memVars, fnVars>>
    /\ UNCHANGED <<interesting_programs, store, pc, latest_slot_record,
                   latest_slot_num, slots_to_fetch>>

(* ------------------------------ bootstrap ----------------------------- *)

\* a start that enters the poll loop without having saved a record
BootstrapWithoutSave(ch, st, faults) ==
    IF Fails(faults, "get_last_processed_slot", 0)
       \/ (GetLastProcessedSlot(st) = None
           /\ (Fails(faults, "get_latest_slot", 0)
               \/ Fails(faults, "get_slot_by_number", GetLatestSlot(ch))
               \/ Fails(faults, "save_slot", GetLatestSlot(ch))))
    THEN [ok |-> FALSE, store |-> st]
    ELSE [ok |-> TRUE, store |-> st]

\* a start that logs the error of saving the first record and goes on
BootstrapIgnoresSaveError(ch, st, faults) ==
    IF Fails(faults, "get_last_processed_slot", 0)
       \/ (GetLastProcessedSlot(st) = None
           /\ (Fails(faults, "get_latest_slot", 0)
               \/ Fails(faults, "get_slot_by_number", GetLatestSlot(ch))))
    THEN [ok |-> FALSE, store |-> st]
    ELSE IF GetLastProcessedSlot(st) # None
            \/ Fails(faults, "save_slot", GetLatestSlot(ch))
    THEN [ok |-> TRUE, store |-> st]
    ELSE [ok |-> TRUE,
          store |-> SaveSlot(st, ToSlotRecord(
                                     GetSlotByNumber(ch, GetLatestSlot(ch))))]

\* start, up to the call of poll_for_slots: Err, or Ok with the store the
\* poll loop starts from
Bootstrap(ch, st, faults) ==
    IF Fails(faults, "get_last_processed_slot", 0)
    THEN [ok |-> FALSE, store |-> st]
    ELSE IF GetLastProcessedSlot(st) # None
    THEN [ok |-> TRUE, store |-> st]
    ELSE IF Fails(faults, "get_latest_slot", 0)
    THEN [ok |-> FALSE, store |-> st]
    ELSE LET latest_slot == GetLatestSlot(ch) IN
         IF Fails(faults, "get_slot_by_number", latest_slot)
            \/ ~ClientHasSlot(ch, latest_slot)
         THEN [ok |-> FALSE, store |-> st]
         ELSE IF Fails(faults, "save_slot", latest_slot)
         THEN [ok |-> FALSE, store |-> st]
         ELSE [ok |-> TRUE,
               store |-> SaveSlot(st,
                             ToSlotRecord(GetSlotByNumber(ch, latest_slot)))]

Start(faults) ==
    /\ pc = "start"
    /\ LET b == Bootstrap(chain, store, faults) IN
       /\ pc' = IF b.ok THEN "idle" ELSE "failed"
       /\ store' = b.store
       /\ handled' = [handled EXCEPT !.boot =
                         IF b.ok THEN UnwrapOr(b.store.last, 0) ELSE 0]
    /\ cur' = [NoTick EXCEPT !.faulted = (faults # {})]
    /\ UNCHANGED <<memVars, fnVars>>
    /\ UNCHANGED <<chain, interesting_programs, latest_slot_record,
                   latest_slot_num, slots_to_fetch, events, prevEvents,
                   prev>>

(* ------------------------------ the tick ------------------------------ *)

\* slots_to_fetch: (stored, latest], ascending; empty when latest < stored
SlotsToFetch(stored, latest) ==
    IF latest > stored THEN [i \in 1..(latest - stored) |-> stored + i]
    ELSE <<>>

\* a tick that left work behind: its log pipeline aborted, or its reorg
\* reconciliation failed
Unfinished(t) == t.abortAt # 0 \/ t.reconcile \notin {"none", "ok"}

\* what is kept of an unfinished tick: where and why it stopped
Summary(t) ==
    [NoTick EXCEPT !.status = t.status, !.abortAt = t.abortAt,
                   !.abortWhy = t.abortWhy, !.abortIdx = t.abortIdx,
                   !.reorgAt = t.reorgAt,
                   !.reconcile = t.reconcile]

\* the handle_slot and handle_log calls of `ev` made for slot n
HandlerCallsFor(ev, n) ==
    SelectSeq(ev, LAMBDA e : e.op \in {"handle_slot", "handle_log"}
                             /\ e.slot = n)

\* process_next_slot up to the loop: read the last record and the latest slot
TickBegin(faults) ==
    /\ pc = "idle"
    /\ LET rec == GetLastProcessedSlot(store)
           why == IF Fails(faults, "get_last_processed_slot", 0)
                  THEN "get_last_processed_slot"
                  ELSE IF rec = None THEN "last_processed_missing"
                  ELSE IF Fails(faults, "get_latest_slot", 0)
                  THEN "get_latest_slot"
                  ELSE "none"
           stored == IF rec = None THEN 0 ELSE UnwrapOr(rec, 0).slot
           latest == GetLatestSlot(chain)
           range == SlotsToFetch(stored, latest)
           t == [NoTick EXCEPT !.faulted = (faults # {})]
       IN  IF why # "none"
           THEN /\ cur' = [t EXCEPT !.status = "err", !.abortWhy = why]
                /\ pc' = "idle"
                /\ latest_slot_record' = None
                /\ latest_slot_num' = 0
                /\ slots_to_fetch' = <<>>
           ELSE IF range = <<>>
           THEN /\ cur' = [t EXCEPT !.status = "ok"]
                /\ pc' = "idle"
                /\ latest_slot_record' = None
                /\ latest_slot_num' = 0
                /\ slots_to_fetch' = <<>>
           ELSE /\ cur' = [t EXCEPT !.status = "running"]
                /\ pc' = "loop"
                /\ latest_slot_record' = rec
                /\ latest_slot_num' = latest
                /\ slots_to_fetch' = range
    /\ prev' = IF Unfinished(cur) THEN Summary(cur) ELSE NoTick
    /\ prevEvents' = IF cur.abortAt # 0
                     THEN HandlerCallsFor(events, cur.abortAt) ELSE <<>>
    /\ events' = <<>>
    /\ UNCHANGED <<chain, interesting_programs, store, handled>>
    /\ UNCHANGED <<memVars, fnVars>>

\* the slot the parent-linkage check compares the fetched parent with: the
\* `latest_slot_record` in scope at the check is the one bound before the
\* loop; the binding made after process_slot_logs ends with the loop body
ExpectedParent(outer_record, processed) == outer_record.slot

\* what one iteration of `for slot_num in slots_to_fetch` did, before the
\* canonical slot is fetched
NoOutcome(st, ev) ==
    [outcome |-> "fetch_err", store |-> st, ev |-> ev, parent_slot |-> 0,
     expected |-> 0, reconcile |-> "none", orphans |-> <<>>, ancestor |-> 0,
     abortWhy |-> "none", abortIdx |-> 0, slot |-> None, logged |-> {}]

\* the iteration after the parent-linkage check
Checked(o, new_canon_slot, expected) ==
    [o EXCEPT !.parent_slot = UnwrapOr(new_canon_slot.parent, 0),
              !.expected = expected, !.slot = Some(new_canon_slot)]

\* a reorg branch that goes on to handle_slot after reconcile_reorg returned
ReorgedThenHandled(o, r) ==
    [o EXCEPT !.outcome = "reorg", !.store = r.store,
              !.ev = Append(r.ev, HandleSlotEv(UnwrapOr(o.slot, 0))),
              !.reconcile = r.err, !.orphans = r.orphans,
              !.ancestor = r.ancestor]

\* the reorg branch: reconcile_reorg returned r, the tick returns Ok
Reorged(o, r) ==
    [o EXCEPT !.outcome = "reorg", !.store = r.store, !.ev = r.ev,
              !.reconcile = r.err, !.orphans = r.orphans,
              !.ancestor = r.ancestor]

\* a forward branch that returns the error of the pruning deletion
PrunedOrAborts(o, l, p) ==
    IF p.logged # {}
    THEN [o EXCEPT !.outcome = "abort", !.ev = l.ev, !.store = p.store,
                   !.abortWhy = "delete_slot", !.logged = @ \cup p.logged]
    ELSE [o EXCEPT !.outcome = "done", !.ev = l.ev, !.store = p.store,
                   !.logged = @ \cup p.logged]

\* the forward branch after pruning, p its result
Pruned(o, l, p) ==
    [o EXCEPT !.outcome = "done", !.ev = l.ev, !.store = p.store,
              !.logged = @ \cup p.logged]

\* the forward branch after process_slot_logs, l its result
Forwarded(o, l, faults) ==
    IF l.err # "none"
    THEN [o EXCEPT !.outcome = "abort", !.store = l.store, !.ev = l.ev,
                   !.abortWhy = l.err, !.abortIdx = l.at]
    ELSE Pruned(o, l, PruneOldSlot(UnwrapOr(l.record, 0), l.store, faults))

\* an iteration that calls handle_slot after process_slot_logs returned
LinkedSlotAfterLogs(ch, programs, expected, new_canon_slot, o, faults) ==
    IF UnwrapOr(new_canon_slot.parent, 0) # expected
    THEN Reorged(o, ReconcileReorg(ch, new_canon_slot, o.store, o.ev, faults))
    ELSE Forwarded(
             o,
             [ProcessSlotLogs(ch, programs, new_canon_slot, o.store,
                              Append(o.ev, HandleSlotEv(new_canon_slot)),
                              faults)
                 EXCEPT !.ev = Append(SelectSeq(@, LAMBDA e :
                                   ~(e.op = "handle_slot"
                                     /\ e.slot = new_canon_slot.slot)),
                                   HandleSlotEv(new_canon_slot))],
             faults)

\* an iteration that calls handle_slot only once the logs of the slot were
\* fetched
LinkedSlotAfterFetch(ch, programs, expected, new_canon_slot, o, faults) ==
    IF UnwrapOr(new_canon_slot.parent, 0) # expected
    THEN Reorged(o, ReconcileReorg(ch, new_canon_slot, o.store, o.ev, faults))
    ELSE Forwarded(
             o,
             [ProcessSlotLogs(ch, programs, new_canon_slot, o.store,
                              Append(o.ev, HandleSlotEv(new_canon_slot)),
                              faults)
                 EXCEPT !.ev = IF \E j \in 1..Len(AllPrograms(programs)) :
                                      Fails(faults, "get_program_logs", j)
                               THEN SelectSeq(@, LAMBDA e :
                                        ~(e.op = "handle_slot"
                                          /\ e.slot = new_canon_slot.slot))
                               ELSE @],
             faults)

\* an iteration that returns the error of handle_slot
LinkedSlotErrorAborts(ch, programs, expected, new_canon_slot, o, faults) ==
    IF UnwrapOr(new_canon_slot.parent, 0) # expected
    THEN Reorged(o, ReconcileReorg(ch, new_canon_slot, o.store, o.ev, faults))
    ELSE IF Fails(faults, "handle_slot", new_canon_slot.slot)
    THEN [o EXCEPT !.outcome = "abort", !.abortWhy = "handle_slot",
                   !.ev = Append(o.ev, HandleSlotEv(new_canon_slot)),
                   !.logged = {"Error handling new slot"}]
    ELSE Forwarded(
             o,
             ProcessSlotLogs(ch, programs, new_canon_slot, o.store,
                             Append(o.ev, HandleSlotEv(new_canon_slot)),
                             faults),
             faults)

\* the iteration after a successful fetch of the canonical slot; o is the
\* outcome so far, its events end with the fetch
Linked(ch, programs, expected, new_canon_slot, o, faults) ==
    IF UnwrapOr(new_canon_slot.parent, 0) # expected
    THEN Reorged(o, ReconcileReorg(ch, new_canon_slot, o.store, o.ev, faults))
    ELSE Forwarded(
             IF Fails(faults, "handle_slot", new_canon_slot.slot)
             THEN [o EXCEPT !.logged = {"Error handling new slot"}]
             ELSE o,
             ProcessSlotLogs(ch, programs, new_canon_slot, o.store,
                             Append(o.ev, HandleSlotEv(new_canon_slot)),
                             faults),
             faults)

\* one iteration of `for slot_num in slots_to_fetch`
ProcessSlot(ch, programs, outer_record, processed, slot_num, st, ev, faults) ==
    IF Fails(faults, "get_slot_by_number", slot_num)
       \/ ~ClientHasSlot(ch, slot_num)
    THEN NoOutcome(st, Append(ev, FetchSlotEv(slot_num)))
    ELSE Linked(ch, programs, ExpectedParent(outer_record, processed),
                GetSlotByNumber(ch, slot_num),
                Checked(NoOutcome(st, Append(ev, FetchSlotEv(slot_num))),
                        GetSlotByNumber(ch, slot_num),
                        ExpectedParent(outer_record, processed)),
                faults)

\* the fault sets of the next iteration: a fault counts only when the call
\* it names is made in the iteration
StepFaults ==
    IF slots_to_fetch = <<>> THEN {{}}
    ELSE
    LET slot_num == Head(slots_to_fetch)
        outer == UnwrapOr(latest_slot_record, 0)
        clean == ProcessSlot(chain, interesting_programs, outer,
                             cur.processed, slot_num, store, events, {})
        hit == {f \in StepFaultSites(chain, interesting_programs, slot_num) :
                   ProcessSlot(chain, interesting_programs, outer,
                               cur.processed, slot_num, store, events, {f})
                   # clean}
    IN  FaultSets(hit)

\* the effect of one iteration, r its outcome, on the poller and the record
\* of the tick
Iterate(r, slot_num, rest, continues, c0, faults) ==
    /\ store' = r.store
    /\ events' = r.ev
    /\ cur' =
         CASE r.outcome = "fetch_err" ->
                 [c0 EXCEPT !.status = "err",
                            !.abortWhy = "get_slot_by_number"]
           [] r.outcome = "reorg" ->
                 [c0 EXCEPT !.status = "ok", !.reorgAt = slot_num,
                            !.reconcile = r.reconcile,
                            !.orphans = [k \in 1..Len(r.orphans) |->
                                            r.orphans[k].slot],
                            !.ancestor = r.ancestor,
                            !.stored = DOMAIN store.slots]
           [] r.outcome = "abort" ->
                 [c0 EXCEPT !.status = "err", !.abortAt = slot_num,
                            !.abortWhy = r.abortWhy,
                            !.abortIdx = r.abortIdx]
           [] OTHER ->
                 [c0 EXCEPT !.processed = Append(cur.processed, slot_num),
                            !.status = IF rest = <<>> THEN "ok"
                                       ELSE "running"]
    /\ handled' =
         IF r.outcome \in {"abort", "done"}
         THEN [last |-> slot_num, reorgSince |-> FALSE,
               pruneFailed |-> (handled.pruneFailed
                   \/ "Failed to prune old slot, error=Other" \in r.logged),
               boot |-> IF faults # {} THEN 0 ELSE handled.boot]
         ELSE IF r.outcome = "reorg" /\ r.orphans # <<>>
         THEN [handled EXCEPT !.reorgSince = TRUE,
                              !.boot = IF faults # {} THEN 0 ELSE @]
         ELSE [handled EXCEPT !.boot = IF faults # {} THEN 0 ELSE @]
    /\ pc' = IF continues THEN "loop" ELSE "idle"
    /\ slots_to_fetch' = IF continues THEN rest ELSE <<>>
    /\ latest_slot_record' = IF continues THEN latest_slot_record ELSE None
    /\ latest_slot_num' = IF continues THEN latest_slot_num ELSE 0

\* the record of the tick after the parent-linkage check of slot_num
Observed(r, slot_num, faults) ==
    IF r.outcome = "fetch_err"
    THEN [cur EXCEPT !.faulted = (cur.faulted \/ faults # {}),
                     !.stepFaulted = (faults # {})]
    ELSE [cur EXCEPT !.faulted = (cur.faulted \/ faults # {}),
                     !.stepFaulted = (faults # {}),
                     !.slotErr = IF "Error handling new slot" \in r.logged
                                 THEN slot_num ELSE @,
                     !.check =
                        <<[slot |-> slot_num, parent |-> r.parent_slot,
                           declared |-> (r.outcome = "reorg"),
                           before |-> IF cur.processed = <<>> THEN 0
                               ELSE cur.processed[Len(cur.processed)]]>>]

SlotStepWith(r, faults) ==
    Iterate(r, Head(slots_to_fetch), Tail(slots_to_fetch),
            r.outcome = "done" /\ Tail(slots_to_fetch) # <<>>,
            Observed(r, Head(slots_to_fetch), faults), faults)

SlotStep(faults) ==
    /\ pc = "loop"
    /\ SlotStepWith(ProcessSlot(chain, interesting_programs,
                                UnwrapOr(latest_slot_record, 0), cur.processed,
                                Head(slots_to_fetch), store, events, faults),
                    faults)
    /\ UNCHANGED <<chain, interesting_programs, prev, prevEvents>>
    /\ UNCHANGED <<memVars, fnVars>>

Next ==
    \/ \E h \in Forks : ChainAdvance(h)
    \/ \E n \in 1..MaxSlot, h \in Forks : ChainReorg(n, h)
    \/ ChainRegress
    \/ \E faults \in FaultSets(BootFaultSites(chain)) : Start(faults)
    \/ \E faults \in FaultSets(TickFaultSites) : TickBegin(faults)
    \/ \E faults \in StepFaults : SlotStep(faults)

Spec == Init /\ [][Next]_vars

(* ----------------------- the poll loop, scheduled --------------------- *)
\* poll_for_slots calls process_next_slot at every interval tick, for ever,
\* and a tick that has begun runs on to its return; every call succeeds.
\* Between ticks the chain grows and replaces blocks as before.

\* the poller with the three interesting_programs, before start
LiveInit ==
    /\ PollerInit
    /\ MemInit
    /\ FnInit

LiveNext ==
    \/ \E h \in Forks : ChainAdvance(h)
    \/ \E n \in 1..MaxSlot, h \in Forks : ChainReorg(n, h)
    \/ Start({})
    \/ TickBegin({})
    \/ SlotStep({})

\* weak fairness of the loop body: SlotStep({}) is enabled exactly when
\* pc = "loop", and each of its steps shortens slots_to_fetch or leaves the
\* loop
SlotLoopRuns == []<>(pc # "loop") \/ []<><<SlotStep({})>>_vars

LiveSpec ==
    /\ LiveInit
    /\ [][LiveNext]_vars
    /\ WF_vars(Start({}))
    /\ WF_vars(TickBegin({}))
    /\ SlotLoopRuns

(* ------------------- in-memory persistence: the calls ----------------- *)
\* Every method starts with `let closed = *self.closed.read().await;`: the
\* read guard is dropped at the end of that statement, so the map operations
\* that follow are steps of their own, each atomic (DashMap), which the
\* tasks interleave.  close holds the write guard from its entry to its
\* return, and a read of `closed` waits for it.

PollerOps == {"get_last_processed_slot", "save_slot", "get_slot", "delete_slot"}

\* the slots and blockhashes the poller of chain c calls the store with: the
\* poller of chain_id the full range, the poller of the other chain one slot
StoreSlots(c) == IF c = chain_id THEN 1..MaxStoreSlot ELSE {1}
StoreHashes(c) == IF c = chain_id THEN Forks ELSE {"hA"}

\* where a call continues after it has read `closed` as false
FirstStep(op) ==
    CASE op = "get_last_processed_slot" -> "get_pointer"
      [] op = "save_slot" -> "insert_record"
      [] op = "get_slot" -> "get_record"
      [] op = "delete_slot" -> "remove_record"

\* the result a poller running alone on the store st would get from call
AloneResult(st, call) ==
    CASE call.op = "get_last_processed_slot" -> Ok(GetLastProcessedSlot(st))
      [] call.op = "save_slot" -> Ok(None)
      [] call.op = "get_slot" -> Ok(GetSlot(st, call.slot_number))
      [] call.op = "delete_slot" ->
            IF DeleteSlot(st, call.slot_number).err = "none"
            THEN Ok(None) ELSE Err(DeleteSlot(st, call.slot_number).err)

\* the store a poller running alone on the store st would leave after call
AloneStore(st, call) ==
    CASE call.op = "save_slot" -> SaveSlot(st, UnwrapOr(call.slot, 0))
      [] call.op = "delete_slot" -> DeleteSlot(st, call.slot_number).store
      [] OTHER -> st

\* the record a get call op(c, n) made now is to return, if any is settled
Expected(op, c, n) ==
    IF op = "get_last_processed_slot" THEN ghost.settled[c]
    ELSE IF /\ op = "get_slot"
            /\ ghost.settled[c] # None
            /\ UnwrapOr(ghost.settled[c], 0).slot = n
    THEN ghost.settled[c]
    ELSE None

\* task t, a poller of chain t, calls op and reads `closed`
Call(t, op, n, h) ==
    /\ inflight[t].at \in {"idle", "done"}
    /\ write_guard = None
    /\ LET slot_number == IF op \in {"get_slot", "delete_slot"} THEN n ELSE 0
           rec == IF op = "save_slot" THEN Some(StoreRecord(t, n, h)) ELSE None
       IN  IF closed
           THEN /\ inflight' = [inflight EXCEPT ![t] =
                       Returned(Calling(op, t, slot_number, rec, "closed"),
                                Err("StoreClosed"))]
                /\ ghost' = [ghost EXCEPT !.expect[t] = None]
           ELSE /\ inflight' = [inflight EXCEPT ![t] =
                       Calling(op, t, slot_number, rec, FirstStep(op))]
                /\ ghost' = [ghost EXCEPT
                       !.expect[t] = Expected(op, t, n),
                       !.settled[t] = IF op \in {"save_slot", "delete_slot"}
                                      THEN None ELSE @]
    /\ UNCHANGED <<last_processed_slots, slots, closed, write_guard>>
    /\ UNCHANGED <<pollerVars, fnVars>>

\* the call of poller t returns res
Return(t, res) ==
    /\ inflight' = [inflight EXCEPT ![t] = Returned(@, res)]
    /\ ghost' = [ghost EXCEPT
           !.settled[t] = IF inflight[t].op = "save_slot" /\ res.ok /\ ~closed
                          THEN inflight[t].slot ELSE @,
           !.want[t] = IF ghost.closing THEN @
                        ELSE AloneResult(ghost.alone[t], inflight[t]),
           !.alone[t] = IF ghost.closing THEN @
                        ELSE AloneStore(@, inflight[t])]

\* save_slot: self.slots.insert(slot_key.clone(), slot.clone())
SaveSlotRecord(t) ==
    /\ inflight[t].at = "insert_record"
    /\ slots' = insert(slots,
                       make_slot_record_key(inflight[t].chain_id,
                                            UnwrapOr(inflight[t].slot, 0).slot),
                       UnwrapOr(inflight[t].slot, 0))
    /\ inflight' = [inflight EXCEPT ![t].at = "insert_pointer"]
    /\ UNCHANGED <<last_processed_slots, closed, write_guard, ghost>>
    /\ UNCHANGED <<pollerVars, fnVars>>

\* save_slot: self.last_processed_slots.insert(key, slot.slot); Ok(())
SaveSlotPointer(t) ==
    /\ inflight[t].at = "insert_pointer"
    /\ last_processed_slots' =
           insert(last_processed_slots, make_slot_key(inflight[t].chain_id),
                  UnwrapOr(inflight[t].slot, 0).slot)
    /\ Return(t, Ok(None))
    /\ UNCHANGED <<slots, closed, write_guard>>
    /\ UNCHANGED <<pollerVars, fnVars>>

\* get_last_processed_slot: self.last_processed_slots.get(&key)
GetLastPointer(t) ==
    /\ inflight[t].at = "get_pointer"
    /\ LET v == get(last_processed_slots, make_slot_key(inflight[t].chain_id))
       IN  IF v = None
           THEN Return(t, Ok(None))
           ELSE /\ inflight' = [inflight EXCEPT
                       ![t].at = "get_pointed_record",
                       ![t].slot_num = UnwrapOr(v, 0)]
                /\ UNCHANGED ghost
    /\ UNCHANGED <<last_processed_slots, slots, closed, write_guard>>
    /\ UNCHANGED <<pollerVars, fnVars>>

\* get_last_processed_slot: self.slots.get(&slot_key)
GetLastRecord(t) ==
    /\ inflight[t].at = "get_pointed_record"
    /\ Return(t, Ok(get(slots, make_slot_record_key(inflight[t].chain_id,
                                                    inflight[t].slot_num))))
    /\ UNCHANGED <<last_processed_slots, slots, closed, write_guard>>
    /\ UNCHANGED <<pollerVars, fnVars>>

\* get_slot: self.slots.get(&key)
GetSlotRecord(t) ==
    /\ inflight[t].at = "get_record"
    /\ Return(t, Ok(get(slots, make_slot_record_key(inflight[t].chain_id,
                                                    inflight[t].slot_number))))
    /\ UNCHANGED <<last_processed_slots, slots, closed, write_guard>>
    /\ UNCHANGED <<pollerVars, fnVars>>

\* delete_slot: self.slots.remove(&key), NotFound when the key was absent
DeleteSlotRecord(t) ==
    /\ inflight[t].at = "remove_record"
    /\ LET key == make_slot_record_key(inflight[t].chain_id,
                                       inflight[t].slot_number)
       IN  /\ slots' = remove(slots, key)
           /\ Return(t, IF get(slots, key) = None
                        THEN Err("NotFound") ELSE Ok(None))
    /\ UNCHANGED <<last_processed_slots, closed, write_guard>>
    /\ UNCHANGED <<pollerVars, fnVars>>

\* close: takes the write guard; StoreClosed when already closed, else
\* *closed = true
Close ==
    /\ inflight[Shutdown].at \in {"idle", "done"}
    /\ write_guard = None
    /\ IF closed
       THEN /\ inflight' = [inflight EXCEPT ![Shutdown] =
                   Returned(Calling("close", 0, 0, None, "closed"),
                            Err("StoreClosed"))]
            /\ ghost' = [NoGhost EXCEPT !.closing = TRUE,
                                         !.closedOk = ghost.closedOk]
            /\ UNCHANGED <<closed, write_guard>>
       ELSE /\ closed' = TRUE
            /\ write_guard' = Some(Shutdown)
            /\ inflight' = [inflight EXCEPT ![Shutdown] =
                   Calling("close", 0, 0, None, "clear_pointers")]
            /\ ghost' = [NoGhost EXCEPT !.closing = TRUE]
    /\ UNCHANGED <<last_processed_slots, slots>>
    /\ UNCHANGED <<pollerVars, fnVars>>

\* close: self.last_processed_slots.clear()
CloseClearPointers ==
    /\ inflight[Shutdown].at = "clear_pointers"
    /\ last_processed_slots' = <<>>
    /\ inflight' = [inflight EXCEPT ![Shutdown].at = "clear_slots"]
    /\ UNCHANGED <<slots, closed, write_guard, ghost>>
    /\ UNCHANGED <<pollerVars, fnVars>>

\* close: self.slots.clear(); Ok(()), the write guard dropped
CloseClearSlots ==
    /\ inflight[Shutdown].at = "clear_slots"
    /\ slots' = <<>>
    /\ write_guard' = None
    /\ inflight' = [inflight EXCEPT ![Shutdown] = Returned(@, Ok(None))]
    /\ ghost' = [ghost EXCEPT !.closedOk = TRUE]
    /\ UNCHANGED <<last_processed_slots, closed>>
    /\ UNCHANGED <<pollerVars, fnVars>>

StoreNext ==
    \/ \E t \in ChainIds, op \in PollerOps :
          \E n \in StoreSlots(t), h \in StoreHashes(t) : Call(t, op, n, h)
    \/ \E t \in ChainIds : SaveSlotRecord(t)
    \/ \E t \in ChainIds : SaveSlotPointer(t)
    \/ \E t \in ChainIds : GetLastPointer(t)
    \/ \E t \in ChainIds : GetLastRecord(t)
    \/ \E t \in ChainIds : GetSlotRecord(t)
    \/ \E t \in ChainIds : DeleteSlotRecord(t)
    \/ Close
    \/ CloseClearPointers
    \/ CloseClearSlots

StoreSpec == Init /\ [][StoreNext]_vars

(* ----------------------- new, run on every config --------------------- *)

ConfigInit ==
    /\ PollerInit
    /\ MemInit
    /\ given \in Configs
    /\ config = None
    /\ responses = <<>>
    /\ rpc = NoRpc

\* SolanaChainPoller::new(.., config, ..)
NewPoller ==
    /\ config = None
    /\ config' = Some(New(given))
    /\ UNCHANGED <<given, responses, rpc>>
    /\ UNCHANGED <<pollerVars, memVars>>

ConfigNext == NewPoller

ConfigSpec == ConfigInit /\ [][ConfigNext]_vars

(* ------------------ call, run on every answer sequence ---------------- *)

CallInit ==
    /\ PollerInit
    /\ MemInit
    /\ given = ExploredConfig
    /\ config = Some(New(ExploredConfig))
    /\ responses \in [1..Len(backoffs) -> BOOLEAN]
    /\ rpc = NoRpc

\* a call that sleeps after every failed attempt
SleptAlways(slept, attempt) == Append(slept, backoffs[attempt + 1])

\* the sleeps made so far, after the attempt with index `attempt` failed:
\* if attempt < backoffs.len() - 1 { sleep(backoff) }
Slept(slept, attempt) ==
    IF attempt < Len(backoffs) - 1
    THEN Append(slept, backoffs[attempt + 1])
    ELSE slept

\* one iteration of `for (attempt, &backoff) in backoffs.iter().enumerate()`;
\* the bail after the loop belongs to the last one
CallAttempt ==
    /\ rpc.result = "none"
    /\ rpc.attempt < Len(backoffs)
    /\ rpc' = IF responses[rpc.attempt + 1]
              THEN [rpc EXCEPT !.attempt = @ + 1, !.result = "ok"]
              ELSE [attempt |-> rpc.attempt + 1,
                    slept |-> Slept(rpc.slept, rpc.attempt),
                    result |-> IF rpc.attempt + 1 = Len(backoffs)
                               THEN "err" ELSE "none"]
    /\ UNCHANGED <<given, config, responses>>
    /\ UNCHANGED <<pollerVars, memVars>>

CallNext == CallAttempt

CallSpec == CallInit /\ [][CallNext]_vars

(* ------------------------------- claims ------------------------------- *)

\* the slot numbers of the calls `op` in ev, in call order
SlotsOf(ev, op) ==
    LET calls == SelectSeq(ev, LAMBDA e : e.op = op)
    IN  [k \in 1..Len(calls) |-> calls[k].slot]

InSeq(x, q) == \E k \in 1..Len(q) : q[k] = x

\* every block of the chain view extends the slot right before it
Linear == \A n \in 1..Len(chain) : chain[n] = "hA"

\* a tick has returned since the chain view last changed
TickReturned == pc = "idle" /\ cur.status \in {"ok", "err"}

\* C1 (P1, monotonic progress): after a tick that returns Ok with every call
\* succeeding, on a chain whose every slot has the slot before it as parent
\* and whose latest slot is not behind the stored one, the persisted
\* last-processed slot equals the latest slot the chain reported in the tick.
C1_MonotonicProgress ==
    (TickReturned /\ cur.status = "ok" /\ ~cur.faulted /\ Linear
     /\ store.last # None /\ UnwrapOr(store.last, 0) <= GetLatestSlot(chain))
    => store.last = Some(GetLatestSlot(chain))

\* C2: for a slot after the first of a tick's range, a reorg is declared
\* exactly when the fetched slot's parent differs from the slot processed
\* immediately before it in this tick.
C2_ComparesWithJustProcessed ==
    \A k \in 1..Len(cur.check) :
        cur.check[k].before # 0
        => (cur.check[k].declared
            <=> cur.check[k].parent # cur.check[k].before)

\* C3 (P2, parent linkage): when handle_slot is delivered for a slot s2 above
\* the slot s1 of the delivery before it, and no handle_reorg_slot call lies
\* between the two, the slot value passed for s2 has parent = s1.
C3_ParentLinkage ==
    [][(handled.last # 0 /\ handled'.last > handled.last
        /\ ~handled.reorgSince)
       => LET calls == SelectSeq(events', LAMBDA e : e.op = "handle_slot")
          IN  /\ calls # <<>>
              /\ calls[Len(calls)].slot = handled'.last
              /\ calls[Len(calls)].parent = Some(handled.last)]_vars

\* C4: after a successful bootstrap the last-processed pointer is set and the
\* record it references exists, in every state between and within ticks.
C4_PointerHasRecord ==
    pc \in {"idle", "loop"}
    => /\ store.last # None
       /\ HasRecord(store, UnwrapOr(store.last, 0))
       /\ cur.abortWhy # "last_processed_missing"

\* C5: when reconcile_reorg failed in the tick before (find_orphaned_slots
\* failed, the orphan list was empty, or a delete failed) and the chain view
\* is unchanged, the tick after it, its calls succeeding, declares a reorg at
\* the same slot and runs reconcile_reorg again.
C5_ReorgDetectedAgain ==
    (TickReturned /\ ~cur.faulted
     /\ prev.reconcile \in {"find_orphaned_slots", "no_orphans", "delete_slot"})
    => (cur.reorgAt = prev.reorgAt /\ cur.reconcile # "none")

\* the stored records at a+1 .. start-1 are all off the canonical chain and
\* the stored record at a, within max_reorg_depth of start, is on it
AncestorInRange(a, start) ==
    /\ a >= 1
    /\ a < start
    /\ a >= start - max_reorg_depth
    /\ HasRecord(store, a)
    /\ store.slots[a].blockhash = GetSlotByNumber(chain, a).blockhash
    /\ \A m \in (a + 1)..(start - 1) :
          /\ HasRecord(store, m)
          /\ store.slots[m].blockhash # GetSlotByNumber(chain, m).blockhash

\* C6: when an iteration declares a reorg at slot start with a common
\* ancestor a in range and every call of the reconciliation succeeds,
\* handle_reorg_slot is called exactly for start-1 down to a+1, exactly those
\* records are deleted, and the record at a stays in persistence.
C6_ReconcileToAncestor ==
    [][\A a \in 1..MaxSlot :
         (/\ pc = "loop"
          /\ cur'.reorgAt = Head(slots_to_fetch)
          /\ ~cur'.stepFaulted
          /\ AncestorInRange(a, Head(slots_to_fetch)))
         => /\ SlotsOf(events', "handle_reorg_slot")
                 = [k \in 1..(Head(slots_to_fetch) - 1 - a) |->
                        Head(slots_to_fetch) - k]
            /\ DOMAIN store'.slots
                 = (DOMAIN store.slots) \ ((a + 1)..(Head(slots_to_fetch) - 1))
            /\ \A m \in DOMAIN store'.slots : store'.slots[m] = store.slots[m]
      ]_vars

\* a reconciliation found a stored common ancestor below at least one orphan
\* and completed
C6_Witness ==
    /\ TickReturned
    /\ cur.reconcile = "ok"
    /\ ~cur.stepFaulted
    /\ cur.orphans # <<>>
    /\ cur.ancestor \in cur.stored
    /\ HasRecord(store, cur.ancestor)
    /\ \A k \in 1..Len(cur.orphans) : ~HasRecord(store, cur.orphans[k])

\* C7 (P3, orphan ordering): the slot numbers of the successive
\* handle_reorg_slot calls of one reconcile_reorg invocation (a tick makes at
\* most one) are strictly descending.
C7_OrphansDescending ==
    LET q == SlotsOf(events, "handle_reorg_slot")
    IN  \A k \in 1..(Len(q) - 1) : q[k] > q[k + 1]

\* a reconciliation notified two orphaned slots
C7_Witness == Len(SlotsOf(events, "handle_reorg_slot")) >= 2

\* C8 (P4, handler ordering per slot): every handle_log call of a tick is
\* preceded in the tick by a handle_slot call for the slot its envelope
\* carries, with no handle_slot call between the two.
C8_SlotBeforeLogs ==
    \A i \in 1..Len(events) :
        events[i].op = "handle_log"
        => \E j \in 1..(i - 1) :
              /\ events[j].op = "handle_slot"
              /\ events[j].slot = events[i].slot
              /\ \A k \in (j + 1)..(i - 1) : events[k].op # "handle_slot"

\* a tick delivered two slots and a log of the second one
C8_Witness ==
    /\ Len(SlotsOf(events, "handle_slot")) >= 2
    /\ \E i \in 1..Len(events) :
          /\ events[i].op = "handle_log"
          /\ events[i].slot = SlotsOf(events, "handle_slot")[2]

\* the tick before aborted at slot s on a get_program_logs error and this
\* tick, every call succeeding, has processed s
RetriedAfterFetchError ==
    /\ prev.abortAt # 0
    /\ prev.abortWhy = "get_program_logs"
    /\ ~cur.faulted
    /\ InSeq(prev.abortAt, cur.processed)

\* the number of handle_slot calls for slot n over the tick before and this
HandleSlotCalls(n) ==
    Len(SelectSeq(prevEvents \o events,
                  LAMBDA e : e.op = "handle_slot" /\ e.slot = n))

\* C9 as stated: after a get_program_logs failure and a successful retry the
\* handler has received handle_slot for the slot exactly once.
C9_HandledOnce ==
    RetriedAfterFetchError => HandleSlotCalls(prev.abortAt) = 1

\* C9 as amended: after a get_program_logs failure and a successful retry the
\* handler has received handle_slot for the slot exactly twice, once in each
\* of the two ticks.
C9_HandledTwice ==
    RetriedAfterFetchError
    => /\ HandleSlotCalls(prev.abortAt) = 2
       /\ Len(SelectSeq(prevEvents, LAMBDA e : e.op = "handle_slot")) = 1

C9_Witness == RetriedAfterFetchError /\ TickReturned

LogPipelineErrors == {"get_program_logs", "decode_log", "handle_log"}

\* C10: when the log pipeline of slot s aborts, handle_log was called for no
\* log after the failing one, the store (records and pointer) is as before
\* the iteration, the loop ends without a later slot, and the next tick,
\* when it reaches the loop, starts at s.
C10_AbortLeavesSlot ==
    [][/\ (pc = "loop" /\ cur'.abortAt # 0 /\ cur'.abortWhy \in LogPipelineErrors)
          => /\ store' = store
             /\ pc' = "idle"
             /\ slots_to_fetch' = <<>>
             /\ SlotsOf(events', "handle_slot")
                  = Append(SlotsOf(events, "handle_slot"), cur'.abortAt)
             /\ Len(SlotsOf(events', "handle_log"))
                  - Len(SlotsOf(events, "handle_log"))
                  = (CASE cur'.abortWhy = "get_program_logs" -> 0
                       [] cur'.abortWhy = "decode_log" -> cur'.abortIdx - 1
                       [] OTHER -> cur'.abortIdx)
       /\ (pc = "idle" /\ cur.abortAt # 0 /\ cur.abortWhy \in LogPipelineErrors
           /\ cur'.status # "none" /\ ~cur'.faulted)
          => /\ pc' = "loop"
             /\ Head(slots_to_fetch') = cur.abortAt
      ]_vars

\* a tick aborted at a handle_log error with a log still to deliver, and the
\* next tick is about to process the same slot
C10_Witness ==
    /\ pc = "loop"
    /\ prev.abortAt # 0
    /\ prev.abortWhy = "handle_log"
    /\ prev.abortIdx < NumLogs(chain, interesting_programs, prev.abortAt)
    /\ Head(slots_to_fetch) = prev.abortAt
    /\ HandlerCallsFor(events, prev.abortAt) = <<>>

\* the handle_log calls process_slot_logs makes for slot n when every log is
\* fetched, decoded and delivered
AllLogCalls(n) ==
    LET logs == FetchLogsForInterestingPrograms(chain, interesting_programs,
                                                n, <<>>, {}).logs
    IN  [i \in 1..Len(logs) |->
            HandleLogEv(GetSlotByNumber(chain, n),
                        DecodeLog(logs[i].program_id, logs[i]))]

\* the handle_log calls of ev for slot n, in call order
LogCallsFor(ev, n) ==
    SelectSeq(ev, LAMBDA e : e.op = "handle_log" /\ e.slot = n)

\* C11: when handle_slot fails for a slot, the iteration still delivers every
\* log of the slot in order, saves the slot's record, moves the
\* last-processed pointer to the slot, and the loop goes on with the
\* following slots of the range.
C11_HandleSlotErrorGoesOn ==
    [][(pc = "loop" /\ cur'.slotErr = Head(slots_to_fetch))
       => /\ LogCallsFor(events', Head(slots_to_fetch))
               = AllLogCalls(Head(slots_to_fetch))
          /\ HasRecord(store', Head(slots_to_fetch))
          /\ store'.slots[Head(slots_to_fetch)]
               = ToSlotRecord(GetSlotByNumber(chain, Head(slots_to_fetch)))
          /\ store'.last = Some(Head(slots_to_fetch))
          /\ cur'.status # "err"
          /\ cur'.processed = Append(cur.processed, Head(slots_to_fetch))
          /\ slots_to_fetch' = Tail(slots_to_fetch)
          /\ pc' = IF Tail(slots_to_fetch) # <<>> THEN "loop" ELSE "idle"
      ]_vars

\* handle_slot failed for a slot with a log, and the tick went on to process
\* the slot after it
C11_Witness ==
    /\ Len(cur.processed) >= 2
    /\ cur.slotErr = cur.processed[1]
    /\ LogCallsFor(events, cur.slotErr) # <<>>

\* q is an initial segment of r
IsPrefix(q, r) == Len(q) <= Len(r) /\ SubSeq(r, 1, Len(q)) = q

\* C12 (P6, idempotent re-tick): when the tick before aborted on a handle_log
\* failure for slot s and the chain view is unchanged, the tick after it, its
\* calls succeeding, makes for s the handle_slot and handle_log calls the
\* aborted tick made, in the same order, and goes on from there.
C12_ReplaysSlot ==
    (TickReturned /\ ~cur.faulted
     /\ prev.abortAt # 0 /\ prev.abortWhy = "handle_log")
    => /\ IsPrefix(prevEvents, HandlerCallsFor(events, prev.abortAt))
       /\ LogCallsFor(events, prev.abortAt) = AllLogCalls(prev.abortAt)

\* the stored records whose slot number is at most tip - slot_history_size
BelowHistory(st) ==
    {n \in DOMAIN st.slots : n + slot_history_size <= UnwrapOr(st.last, 0)}

C14_ReorgEndsTick ==
    [][/\ (pc = "loop" /\ cur'.reorgAt = Head(slots_to_fetch))
          => /\ pc' = "idle"
             /\ slots_to_fetch' = <<>>
             /\ SlotsOf(events', "handle_slot") = SlotsOf(events, "handle_slot")
             /\ SlotsOf(events', "handle_log") = SlotsOf(events, "handle_log")
             /\ \A m \in Head(slots_to_fetch)..MaxSlot :
                   /\ HasRecord(store', m) => HasRecord(store, m)
                   /\ HasRecord(store', m) => store'.slots[m] = store.slots[m]
             /\ UnwrapOr(store'.last, 0) >= Head(slots_to_fetch)
                   => store'.last = store.last
       /\ \A i \in 1..Len(events') : \A j \in 1..Len(events') :
             (events'[i].op = "handle_reorg_slot" /\ i < j)
             => events'[j].op \notin {"handle_slot", "handle_log"}
       /\ (cur'.reorgAt # 0)
          => \A i \in 1..Len(events') :
                events'[i].op \in {"handle_slot", "handle_log"}
                => events'[i].slot < cur'.reorgAt
      ]_vars

\* a tick declared a reorg for a slot with a later slot still in its range,
\* and notified an orphan
C14_Witness ==
    /\ TickReturned
    /\ cur.reorgAt # 0
    /\ cur.reorgAt < GetLatestSlot(chain)
    /\ cur.orphans # <<>>

\* C15 (cold start): when persistence has no last-processed record and start
\* succeeds, persistence holds exactly one record, for the latest slot, with
\* that slot's number and blockhash, its parent and block_time or 0 where the
\* slot has none, and the pointer names that slot; no tick has run and no
\* handler was called.
C15_ColdStart ==
    [][(pc = "start" /\ pc' = "idle" /\ GetLastProcessedSlot(store) = None)
       => LET latest == GetLatestSlot(chain)
              s == GetSlotByNumber(chain, latest)
          IN  /\ DOMAIN store'.slots = {latest}
              /\ store'.last = Some(latest)
              /\ store'.slots[latest].slot = latest
              /\ store'.slots[latest].blockhash = chain[latest]
              /\ store'.slots[latest].parent
                   = (IF s.parent = None THEN 0 ELSE CHOOSE v \in s.parent : TRUE)
              /\ store'.slots[latest].block_time
                   = (IF s.block_time = None THEN 0
                      ELSE CHOOSE v \in s.block_time : TRUE)
              /\ events' = <<>>
              /\ cur'.status = "none"
      ]_vars

\* start succeeded on a latest slot that has neither parent nor block_time
C15_Witness ==
    /\ pc = "idle"
    /\ cur.status = "none"
    /\ handled.last = 0
    /\ DOMAIN store.slots = {GetLatestSlot(chain)}
    /\ GetSlotByNumber(chain, GetLatestSlot(chain)).parent = None
    /\ store.slots[GetLatestSlot(chain)].parent = 0
    /\ store.slots[GetLatestSlot(chain)].block_time = 0

\* C16: when a step of the bootstrap fails, start returns an error: the poll
\* loop is not entered, so no tick runs, and no handler call is made.
C16_BootstrapFailureIsFatal ==
    /\ [][/\ (pc = "start" /\ pc' # "start" /\ cur'.faulted)
              => pc' = "failed"
          /\ pc' = "failed"
             => /\ events' = <<>>
                /\ prevEvents' = <<>>
                /\ cur'.status = "none"
                /\ handled' = NoHandled
         ]_vars
    /\ [](pc = "failed"
          => ~ENABLED (\E faults \in FaultSets(TickFaultSites) :
                          TickBegin(faults)))

\* start failed
C16_Witness == pc = "failed" /\ cur.faulted

\* the slots from lo to hi
Slots(lo, hi) == {n \in 1..MaxSlot : lo <= n /\ n <= hi}

\* C17 (pruning) as stated: an iteration that saves slot n with
\* n > slot_history_size leaves no record at n - slot_history_size, whatever
\* the deletion returned.
C17_RecordAbsent ==
    [][(/\ pc = "loop"
        /\ store'.last = Some(Head(slots_to_fetch))
        /\ Head(slots_to_fetch) > slot_history_size)
       => ~HasRecord(store', Head(slots_to_fetch) - slot_history_size)
      ]_vars

\* C17 as amended: an iteration that saves slot n with n > slot_history_size
\* leaves no record at n - slot_history_size when the deletion succeeded or
\* found none; whatever the deletion returned, the iteration completes and
\* the loop goes on with the rest of the range; and while the chain is stable
\* and no call has failed, the records are those of the slot_history_size
\* most recent slots up to the tip, as far as start has been passed.
C17_Pruning ==
    [][/\ (pc = "loop" /\ store'.last = Some(Head(slots_to_fetch)))
          => /\ HasRecord(store', Head(slots_to_fetch))
             /\ (Head(slots_to_fetch) > slot_history_size
                 /\ (~cur'.stepFaulted
                     \/ cur'.slotErr = Head(slots_to_fetch)))
                => ~HasRecord(store', Head(slots_to_fetch) - slot_history_size)
             /\ cur'.status # "err"
             /\ cur'.processed = Append(cur.processed, Head(slots_to_fetch))
             /\ slots_to_fetch' = Tail(slots_to_fetch)
             /\ pc' = IF Tail(slots_to_fetch) # <<>> THEN "loop" ELSE "idle"
       /\ handled'.boot # 0
          => DOMAIN store'.slots
               = Slots(Max(handled'.boot,
                           UnwrapOr(store'.last, 0) - slot_history_size + 1),
                       UnwrapOr(store'.last, 0))
      ]_vars

\* the pruning deletion of an iteration failed on a stored record and the
\* loop went on to the next slot of the range
C17_Witness ==
    /\ pc = "loop"
    /\ cur.processed # <<>>
    /\ cur.stepFaulted
    /\ cur.slotErr = 0
    /\ handled.pruneFailed
    /\ HasRecord(store, UnwrapOr(store.last, 0) - slot_history_size)

\* on a stable chain the tip has moved slot_history_size slots past the slot
\* start began at
C17_Stable ==
    /\ TickReturned
    /\ handled.boot # 0
    /\ UnwrapOr(store.last, 0) >= handled.boot + slot_history_size

(* ------------------- claims on the in-memory store -------------------- *)

\* task t has returned from a get call that was made after a save_slot of
\* its chain returned Ok on the open store, with no save_slot, delete_slot
\* or close called in between
GotAfterSave(t) ==
    /\ inflight[t].at = "done"
    /\ inflight[t].op \in {"get_slot", "get_last_processed_slot"}
    /\ ghost.expect[t] # None

\* C18 (persistence round trip): after save_slot(r) has returned Ok on an
\* open store, get_slot(r.chain_id, r.slot) and
\* get_last_processed_slot(r.chain_id) return Ok(Some(r)), r in all fields,
\* whatever the store held before, as long as no save_slot or delete_slot of
\* that chain and no close has been called since.
C18_RoundTrip ==
    \A t \in ChainIds :
        GotAfterSave(t) => inflight[t].result = Ok(ghost.expect[t])

\* get_last_processed_slot returned the record saved last for slot 1 while
\* the store holds a record of the chain for slot 2, saved before, and the
\* poller of the other chain is in the middle of a save_slot
C18_Witness ==
    /\ GotAfterSave(chain_id)
    /\ inflight[chain_id].op = "get_last_processed_slot"
    /\ UnwrapOr(ghost.expect[chain_id], 0).slot = 1
    /\ get(slots, make_slot_record_key(chain_id, 2)) # None
    /\ inflight[chain_id + 1].at = "insert_pointer"

\* C19 (close barrier under concurrency): once close has returned Ok, no
\* call completes with Ok (each returns StoreClosed) and both maps are empty,
\* also when calls that read `closed` before close are still under way.
C19_CloseBarrier ==
    /\ [][ghost.closedOk
          => \A t \in Tasks :
                (inflight'[t] # inflight[t] /\ inflight'[t].at = "done")
                => inflight'[t].result = Err("StoreClosed")]_vars
    /\ [](ghost.closedOk
          => DOMAIN slots = {} /\ DOMAIN last_processed_slots = {})

\* C19 for the calls made after close returned Ok: each returns StoreClosed.
C19_LaterCallsFail ==
    [][(ghost.closedOk /\ \E t \in Tasks : inflight[t].at \in {"idle", "done"}
                                          /\ inflight'[t] # inflight[t])
       => \A t \in Tasks :
             (inflight[t].at \in {"idle", "done"} /\ inflight'[t] # inflight[t])
             => inflight'[t].result = Err("StoreClosed")]_vars

\* C20 (chain isolation): a step of save_slot or delete_slot for chain a
\* leaves every record and the last-processed pointer of every other chain b
\* as they were; and while the store has not been closed, every call of a
\* poller returns what it would return with the poller alone on the store.
C20_ChainIsolation ==
    /\ [][\A a \in ChainIds : \A b \in ChainIds \ {a} :
             (/\ inflight'[a] # inflight[a]
              /\ inflight'[a].op \in {"save_slot", "delete_slot"})
             => /\ \A n \in 1..MaxStoreSlot :
                      get(slots', make_slot_record_key(b, n))
                        = get(slots, make_slot_record_key(b, n))
                /\ get(last_processed_slots', make_slot_key(b))
                     = get(last_processed_slots, make_slot_key(b))]_vars
    /\ [](\A c \in ChainIds :
             (inflight[c].at = "done" /\ ~ghost.closing)
             => inflight[c].result = ghost.want[c])

\* on the open store the poller of one chain has deleted its record of slot 1
\* while the other chain keeps its record of slot 1, which its poller has
\* just read
C20_Witness ==
    /\ ~ghost.closing
    /\ inflight[chain_id].at = "done"
    /\ inflight[chain_id].op = "delete_slot"
    /\ inflight[chain_id].slot_number = 1
    /\ inflight[chain_id].result = Ok(None)
    /\ inflight[chain_id + 1].at = "done"
    /\ inflight[chain_id + 1].op = "get_slot"
    /\ inflight[chain_id + 1].result
         = Ok(get(slots, make_slot_record_key(chain_id + 1, 1)))
    /\ get(slots, make_slot_record_key(chain_id + 1, 1)) # None

(* ---------------------- claims on new and on call --------------------- *)

\* C21 (config normalization): the poller new builds has max_reorg_depth 10
\* when the config handed in had 0 and the value handed in otherwise,
\* slot_history_size 100 when the config handed in had 0 and the value handed
\* in otherwise, and reorg_check_enabled true.
C21_ConfigNormalized ==
    config # None
    => /\ UnwrapOr(config, 0).max_reorg_depth
            = IF given.max_reorg_depth = 0 THEN 10 ELSE given.max_reorg_depth
       /\ UnwrapOr(config, 0).slot_history_size
            = IF given.slot_history_size = 0 THEN 100
              ELSE given.slot_history_size
       /\ UnwrapOr(config, 0).max_reorg_depth > 0
       /\ UnwrapOr(config, 0).reorg_check_enabled

\* new has built a poller from a config with both sizes 0 and the reorg
\* check switched off
C21_Witness ==
    /\ config # None
    /\ given.max_reorg_depth = 0
    /\ given.slot_history_size = 0
    /\ ~given.reorg_check_enabled

\* the first n waits of the client
Waits(n) == SubSeq(<<1, 3, 5, 10, 20, 30>>, 1, n)

\* C27 (client retry): a call makes at most 7 attempts; it returns Ok at the
\* first attempt that succeeds; before attempt k + 1 it has slept 1, 3, 5,
\* 10, 20, 30 seconds after the failed attempts 1 to k; it returns the error
\* at the 7th failed attempt, having slept six times; and while it has not
\* returned, fewer than 7 attempts are made, so it ends within 7 steps.
C27_ClientRetry ==
    /\ rpc.attempt <= 7
    /\ \A k \in 1..rpc.attempt :
          responses[k] <=> (k = rpc.attempt /\ rpc.result = "ok")
    /\ rpc.result = "ok" => rpc.slept = Waits(rpc.attempt - 1)
    /\ rpc.result = "none" => rpc.attempt < 7 /\ rpc.slept = Waits(rpc.attempt)
    /\ rpc.result = "err" => rpc.attempt = 7 /\ rpc.slept = Waits(6)

\* a call has returned the error after seven failed attempts
C27_Witness ==
    /\ rpc.result = "err"
    /\ rpc.attempt = 7
    /\ Len(rpc.slept) = 6

\* a call has returned Ok at its third attempt
C27_ThirdAttempt ==
    /\ rpc.result = "ok"
    /\ rpc.attempt = 3
    /\ rpc.slept = <<1, 3>>

(* ------------------------ further poller claims ---------------------- *)

\* the calls of the current tick made for slot n
CallsFor(ev, op, n) == SelectSeq(ev, LAMBDA e : e.op = op /\ e.slot = n)

\* C22: with interesting_programs empty or holding only empty strings, an
\* iteration whose slot passes the parent check makes no get_program_logs
\* and no handle_log call, delivers handle_slot once, and, unless save_slot
\* itself fails, saves the slot's record and moves the last-processed
\* pointer to the slot.
C22_NoProgramsStillAdvances ==
    [][(/\ pc = "loop"
        /\ \A j \in 1..Len(interesting_programs) :
              interesting_programs[j] = ""
        /\ cur'.check # <<>>
        /\ cur'.check[1].slot = Head(slots_to_fetch)
        /\ ~cur'.check[1].declared
        /\ cur'.abortWhy # "get_slot_by_number")
       => /\ CallsFor(events', "get_program_logs", Head(slots_to_fetch)) = <<>>
          /\ CallsFor(events', "handle_log", Head(slots_to_fetch)) = <<>>
          /\ Len(CallsFor(events', "handle_slot", Head(slots_to_fetch))) = 1
          /\ cur'.abortWhy \in {"none", "save_slot"}
          /\ cur'.abortWhy = "none"
             => /\ store'.last = Some(Head(slots_to_fetch))
                /\ GetSlot(store', Head(slots_to_fetch))
                     = Some(ToSlotRecord(GetSlotByNumber(chain,
                                             Head(slots_to_fetch))))
                /\ cur'.processed = Append(cur.processed, Head(slots_to_fetch))
      ]_vars

\* a tick of a poller whose only program entry is the empty string has
\* moved the pointer over two slots
C22_Witness ==
    /\ interesting_programs = <<"">>
    /\ TickReturned
    /\ Len(cur.processed) = 2
    /\ store.last = Some(cur.processed[2])
    /\ Len(SlotsOf(events, "handle_slot")) = 2

\* C23: a tick whose reconcile_reorg failed, by an error of
\* find_orphaned_slots, by "No orphaned slots found" or by a deletion that
\* failed, returns an error.
C23_ReconcileFailureFailsTick ==
    (TickReturned /\ cur.reorgAt # 0 /\ cur.reconcile \notin {"none", "ok"})
    => cur.status = "err"

\* C23 for the one case "No orphaned slots found"
C23_NoOrphansFailsTick ==
    (TickReturned /\ cur.reorgAt # 0 /\ cur.reconcile = "no_orphans"
     /\ ~cur.faulted)
    => cur.status = "err"

\* the slot at which the reorg search of the next loop iteration, every call
\* succeeding, builds a record for an ancestor missing from the store; 0 when
\* the iteration declares no reorg or the search meets no missing ancestor
SynthesizedNext ==
    IF pc # "loop" \/ slots_to_fetch = <<>> THEN 0
    ELSE IF ~ClientHasSlot(chain, Head(slots_to_fetch)) THEN 0
    ELSE IF UnwrapOr(GetSlotByNumber(chain, Head(slots_to_fetch)).parent, 0)
            = ExpectedParent(UnwrapOr(latest_slot_record, 0), cur.processed)
    THEN 0
    ELSE LET a == FindOrphanedSlots(chain,
                      GetSlotByNumber(chain, Head(slots_to_fetch)),
                      max_reorg_depth, store, <<>>, {}).ancestor
         IN  IF a # 0 /\ ~HasRecord(store, a) THEN a ELSE 0

\* the outcome r of an iteration has an orphan whose slot had no record in st
OrphanBuilt(st, r) ==
    \E k \in 1..Len(r.orphans) : ~HasRecord(st, r.orphans[k].slot)

\* C24 as stated: when the reorg search builds a record for an ancestor
\* missing from the store, the episode can return a record it built as an
\* orphan: some outcome of the iteration has an orphan whose slot had no
\* record before it.
C24_SynthesizedMayBeOrphan ==
    SynthesizedNext # 0
    => \E faults \in StepFaults :
          OrphanBuilt(store,
              ProcessSlot(chain, interesting_programs,
                          UnwrapOr(latest_slot_record, 0), cur.processed,
                          Head(slots_to_fetch), store, events, faults))

\* C24 as it holds: a record that find_orphaned_slots builds for an ancestor
\* missing from the store carries the canonical blockhash, so it is never
\* returned as an orphan: every orphan of an episode had its record in the
\* store before the episode, no handle_reorg_slot call is made for a slot
\* without one, and a slot whose record was built in the episode holds the
\* canonical blockhash and, unless find_orphaned_slots failed, is the common
\* ancestor the search stopped at.
C24_SynthesizedNeverOrphan ==
    (pc = "idle" /\ cur.reorgAt # 0)
    => /\ \A k \in 1..Len(cur.orphans) : cur.orphans[k] \in cur.stored
       /\ \A k \in 1..Len(SlotsOf(events, "handle_reorg_slot")) :
             SlotsOf(events, "handle_reorg_slot")[k] \in cur.stored
       /\ \A n \in (DOMAIN store.slots) \ cur.stored :
             /\ store.slots[n].blockhash = chain[n]
             /\ cur.reconcile # "find_orphaned_slots" => n = cur.ancestor

\* an episode that returned an orphan went on to a slot missing from the
\* store, built its record and stopped there
C24_Witness ==
    /\ pc = "idle"
    /\ cur.reorgAt # 0
    /\ cur.reconcile = "ok"
    /\ cur.orphans # <<>>
    /\ cur.ancestor # 0
    /\ cur.ancestor \notin cur.stored
    /\ HasRecord(store, cur.ancestor)

\* the slots of the get_slot_by_number calls a step added to the tick's calls
Fetched(before, after) ==
    SlotsOf(SubSeq(after, Len(before) + 1, Len(after)), "get_slot_by_number")

\* C25 (bounded reorg search): the iteration that declares a reorg for slot
\* start fetches the slot itself and then, in find_orphaned_slots, at most
\* max_reorg_depth ancestors: the k-th is slot start - k, so they descend
\* from start - 1, stay within max(1, start - max_reorg_depth) .. start - 1,
\* and slot 0 is never fetched; the search ends after at most
\* min(max_reorg_depth, start - 1) fetches, also when start <= max_reorg_depth.
C25_BoundedSearch ==
    [][(pc = "loop" /\ cur'.reorgAt # 0)
       => LET start == Head(slots_to_fetch)
              q == Fetched(events, events')
          IN  /\ cur'.reorgAt = start
              /\ pc' = "idle"
              /\ q # <<>>
              /\ q[1] = start
              /\ Len(q) - 1 <= max_reorg_depth
              /\ Len(q) - 1 <= start - 1
              /\ \A k \in 1..(Len(q) - 1) :
                    /\ q[k + 1] = start - k
                    /\ q[k + 1] >= Max(1, start - max_reorg_depth)
                    /\ q[k + 1] # 0
      ]_vars

\* a search from a start slot <= max_reorg_depth found every slot down to
\* slot 1 orphaned and stopped there, with depth left
C25_Witness ==
    /\ pc = "idle"
    /\ cur.reorgAt # 0
    /\ cur.reorgAt <= max_reorg_depth
    /\ Len(cur.orphans) = cur.reorgAt - 1
    /\ cur.ancestor = 0
    /\ cur.reconcile = "ok"

\* a search used up max_reorg_depth without reaching a common ancestor
C25_DepthUsedUp ==
    /\ pc = "idle"
    /\ cur.reorgAt > max_reorg_depth + 1
    /\ Len(cur.orphans) = max_reorg_depth
    /\ cur.ancestor = 0

\* the record of chain c at slot n and the pointer of chain c, in the maps
RecordAt(map, c, n) == get(map, make_slot_record_key(c, n))
PointerOf(map, c) == get(map, make_slot_key(c))

\* C26: the map step of delete_slot(c, n) returns NotFound and changes
\* neither map when no record is held at (c, n); when one is held it returns
\* Ok, removes that record and leaves every other record and every pointer
\* as they were; and a get_last_processed_slot of a poller whose pointer
\* refers to a slot without record, as after that deletion, returns Ok(None).
C26_DeleteSlot ==
    /\ [][\A t \in ChainIds :
             (inflight[t].at = "remove_record" /\ inflight'[t].at = "done")
             => LET n == inflight[t].slot_number IN
                /\ last_processed_slots' = last_processed_slots
                /\ \A c \in ChainIds : \A m \in 1..MaxStoreSlot :
                      (c # t \/ m # n)
                      => RecordAt(slots', c, m) = RecordAt(slots, c, m)
                /\ RecordAt(slots', t, n) = None
                /\ IF RecordAt(slots, t, n) = None
                   THEN /\ inflight'[t].result = Err("NotFound")
                        /\ slots' = slots
                   ELSE inflight'[t].result = Ok(None)]_vars
    /\ [](\A t \in ChainIds :
             (/\ inflight[t].at = "done"
              /\ inflight[t].op = "get_last_processed_slot"
              /\ ~ghost.closing
              /\ PointerOf(last_processed_slots, t) # None
              /\ RecordAt(slots, t,
                          UnwrapOr(PointerOf(last_processed_slots, t), 0))
                   = None)
             => inflight[t].result = Ok(None))

\* a poller deleted the record its pointer refers to, keeping another record,
\* and its next call, get_last_processed_slot, has returned
C26_Witness ==
    /\ ~ghost.closing
    /\ inflight[chain_id].at = "done"
    /\ inflight[chain_id].op = "get_last_processed_slot"
    /\ PointerOf(last_processed_slots, chain_id) = Some(2)
    /\ RecordAt(slots, chain_id, 2) = None
    /\ RecordAt(slots, chain_id, 1) # None
    /\ RecordAt(slots, chain_id + 1, 1) # None

\* a delete_slot returned NotFound
C26_NotFound ==
    /\ ~ghost.closing
    /\ inflight[chain_id].op = "delete_slot"
    /\ inflight[chain_id].result = Err("NotFound")
    /\ DOMAIN slots # {}

\* C28: when reconcile_reorg returns Ok after find_orphaned_slots stopped at
\* a common ancestor a, the tick ends there with the pointer at a and the
\* record of a stored, no record is left at any slot from a + 1 to
\* start.slot - 1, and the next tick that gets past its two reads plans the
\* range that starts at a + 1 (it fails only on an injected failure and
\* plans a range whenever the chain head is above a).
C28_CursorRewind ==
    /\ [][(pc = "loop" /\ cur'.reconcile = "ok" /\ cur'.ancestor # 0)
          => /\ pc' = "idle" /\ cur'.status = "ok"
             /\ cur'.ancestor < cur'.reorgAt - 1
             /\ store'.last = Some(cur'.ancestor)
             /\ HasRecord(store', cur'.ancestor)
             /\ \A n \in (cur'.ancestor + 1)..(cur'.reorgAt - 1) :
                   ~HasRecord(store', n)]_vars
    /\ [][(pc = "idle" /\ cur.reconcile = "ok" /\ cur.ancestor # 0
           /\ cur' # cur /\ chain' = chain)
          => /\ cur'.status = "err" => cur'.faulted
             /\ (cur'.status # "err" /\ GetLatestSlot(chain) > cur.ancestor)
                => pc' = "loop"
             /\ pc' = "loop"
                => /\ Head(slots_to_fetch') = cur.ancestor + 1
                   /\ latest_slot_record' = Some(store.slots[cur.ancestor])
          ]_vars

\* a tick ended with a rewind to ancestor 2 over the orphaned slot 3, whose
\* record was stored before and is gone
C28_Witness ==
    /\ pc = "idle" /\ cur.reconcile = "ok" /\ cur.status = "ok"
    /\ cur.ancestor = 2 /\ cur.reorgAt = 4 /\ cur.orphans = <<3>>
    /\ 3 \in cur.stored /\ ~HasRecord(store, 3)
    /\ store.last = Some(2)
    /\ GetLatestSlot(chain) > 2

\* every slot of the chain has the slot before it as parent
LinearChain ==
    \A n \in 1..Len(chain) : UnwrapOr(GetSlotByNumber(chain, n).parent, 0) = n - 1

\* the chain view has stopped changing and is linear, after a bootstrap that
\* succeeded
ChainSettles ==
    /\ <>[][chain' = chain]_vars
    /\ <>[]LinearChain
    /\ <>(pc = "idle")

\* C29: when, after a successful bootstrap, the chain view stops changing
\* (fixed latest slot, every slot n with parent n - 1, fixed blockhashes) and
\* every call succeeds, the poll loop brings the last-processed pointer to
\* the latest slot of the chain and keeps it there, whatever reorgs came
\* before.
C29_EventualCatchUp ==
    ChainSettles => <>[](store.last = Some(GetLatestSlot(chain)))

\* the catch-up when the pointer always refers to a stored record and is not
\* ahead of the chain in the end
C29_CatchUpWithRecord ==
    (/\ ChainSettles
     /\ [](pc = "idle" => GetLastProcessedSlot(store) # None)
     /\ <>[](UnwrapOr(store.last, 0) <= GetLatestSlot(chain)))
    => <>[](store.last = Some(GetLatestSlot(chain)))

\* the poll loop stands on a linear chain with a pointer whose record was
\* deleted by a reorg search that ran out of depth
C29_Wedged ==
    /\ pc = "idle" /\ LinearChain
    /\ store.last # None /\ GetLastProcessedSlot(store) = None
    /\ UnwrapOr(store.last, 0) < GetLatestSlot(chain)

====
